---- MODULE Spec2Model ----
(***************************************************************************)
(* A model of the Mahjong score tracker (src/app.py): the scoring          *)
(* function calculate_points, the Flask handlers /calculate,               *)
(* /calculate_totals, /remove_games, /api/players (POST, DELETE), and the  *)
(* two SQLite tables they read and write.                                  *)
(*                                                                         *)
(* Text is modelled as a sequence of one-character strings, so that        *)
(* str.strip() and int() act on characters.  Python floats are IEEE-754    *)
(* doubles; a points value is modelled exactly, as the integer             *)
(* value * 2^56 held in four base-2^20 limbs, and every float operation    *)
(* of the code (int / int, float + float, round(x, 1), comparison) is      *)
(* modelled with its round-to-nearest-even rounding to 53 significant bits.*)
(***************************************************************************)
EXTENDS Integers, Sequences, FiniteSets, TLC

VARIABLES games, games_seq, players, players_seq, request, response,
          scores, results

vars == <<games, games_seq, players, players_seq, request, response,
          scores, results>>

(***************************************************************************)
(* IEEE-754 double arithmetic.                                             *)
(* A magnitude is <<l1, l2, l3, l4>> = l1 + l2*B + l3*B^2 + l4*B^3 with    *)
(* B = 2^20 and stands for the real number magnitude / 2^56.  Every double *)
(* the program computes here is a multiple of 2^-56 (its absolute value is *)
(* 0 or at least 2^-4) and below 2^16, so the representation is exact.     *)
(***************************************************************************)
Base == 2^20

Pow2(n) == 2^n

MagZero == <<0, 0, 0, 0>>

MagAdd(a, b) ==
    LET s1 == a[1] + b[1]
        s2 == a[2] + b[2] + (s1 \div Base)
        s3 == a[3] + b[3] + (s2 \div Base)
        s4 == a[4] + b[4] + (s3 \div Base)
    IN  <<s1 % Base, s2 % Base, s3 % Base, s4>>

\* a - b, for a >= b
MagSub(a, b) ==
    LET d1 == a[1] - b[1]
        w1 == IF d1 < 0 THEN 1 ELSE 0
        d2 == a[2] - b[2] - w1
        w2 == IF d2 < 0 THEN 1 ELSE 0
        d3 == a[3] - b[3] - w2
        w3 == IF d3 < 0 THEN 1 ELSE 0
        d4 == a[4] - b[4] - w3
    IN  <<d1 + w1 * Base, d2 + w2 * Base, d3 + w3 * Base, d4>>

\* -1, 0, 1 as a < b, a = b, a > b
MagCmp(a, b) ==
    IF a[4] # b[4] THEN (IF a[4] < b[4] THEN -1 ELSE 1)
    ELSE IF a[3] # b[3] THEN (IF a[3] < b[3] THEN -1 ELSE 1)
    ELSE IF a[2] # b[2] THEN (IF a[2] < b[2] THEN -1 ELSE 1)
    ELSE IF a[1] # b[1] THEN (IF a[1] < b[1] THEN -1 ELSE 1)
    ELSE 0

\* a * k, for a small k
MagMulSmall(a, k) ==
    LET p1 == a[1] * k
        p2 == a[2] * k + (p1 \div Base)
        p3 == a[3] * k + (p2 \div Base)
        p4 == a[4] * k + (p3 \div Base)
    IN  <<p1 % Base, p2 % Base, p3 % Base, p4>>

\* the quotient and the remainder of a by a small k
MagDivSmall(a, k) ==
    LET q4 == a[4] \div k
        r4 == a[4] % k
        n3 == r4 * Base + a[3]
        n2 == (n3 % k) * Base + a[2]
        n1 == (n2 % k) * Base + a[1]
    IN  [q |-> <<n1 \div k, n2 \div k, n3 \div k, q4>>, r |-> n1 % k]

RECURSIVE BitLenInt(_)
BitLenInt(x) == IF x = 0 THEN 0 ELSE 1 + BitLenInt(x \div 2)

BitLen(a) ==
    IF a[4] # 0 THEN 60 + BitLenInt(a[4])
    ELSE IF a[3] # 0 THEN 40 + BitLenInt(a[3])
    ELSE IF a[2] # 0 THEN 20 + BitLenInt(a[2])
    ELSE BitLenInt(a[1])

\* The magnitude a (plus a fraction in (0, 1) when sticky) rounded to 53
\* significant bits, to nearest, ties to even: the rounding of every IEEE
\* double operation.  The dropped bits lie in the lowest limb.
RoundToDouble(a, sticky) ==
    LET d == BitLen(a) - 53
    IN  IF d <= 0 THEN a
        ELSE LET P    == Pow2(d)
                 low  == a[1] % P
                 half == P \div 2
                 odd  == IF d < 20 THEN (a[1] \div P) % 2 = 1
                                   ELSE a[2] % 2 = 1
                 kept == <<a[1] - low, a[2], a[3], a[4]>>
                 up   == \/ low > half
                         \/ low = half /\ (sticky \/ odd)
             IN  IF up THEN MagAdd(kept, <<P % Base, P \div Base, 0, 0>>)
                       ELSE kept

\* a / 2^4, for a a multiple of 2^4
MagShr4(a) ==
    <<(a[1] \div 16) + (a[2] % 16) * (Base \div 16),
      (a[2] \div 16) + (a[3] % 16) * (Base \div 16),
      (a[3] \div 16) + (a[4] % 16) * (Base \div 16),
      a[4] \div 16>>

Abs(n) == IF n < 0 THEN -n ELSE n

\* float(k) for an integer k, |k| < 2^15: exact
FloatOfInt(k) ==
    [neg |-> k < 0,
     mag |-> <<0, 0, (Abs(k) * Pow2(16)) % Base, (Abs(k) * Pow2(16)) \div Base>>]

\* Python's a / 1000 for an integer a (true division, correctly rounded),
\* |a| < 2^20 and |a| = 0 or |a| >= 63: |a| * 2^60 / 1000 rounded to 53
\* bits, then rescaled to units of 2^-56
FloatDiv1000(a) ==
    LET qr == MagDivSmall(<<0, 0, 0, Abs(a)>>, 1000)
        m  == MagShr4(RoundToDouble(qr.q, qr.r # 0))
    IN  [neg |-> a < 0 /\ m # MagZero, mag |-> m]

\* x + y on doubles
FloatAdd(x, y) ==
    IF x.neg = y.neg
    THEN [neg |-> x.neg, mag |-> RoundToDouble(MagAdd(x.mag, y.mag), FALSE)]
    ELSE LET c == MagCmp(x.mag, y.mag)
         IN  IF c = 0 THEN [neg |-> FALSE, mag |-> MagZero]
             ELSE IF c > 0
             THEN [neg |-> x.neg, mag |-> RoundToDouble(MagSub(x.mag, y.mag), FALSE)]
             ELSE [neg |-> y.neg, mag |-> RoundToDouble(MagSub(y.mag, x.mag), FALSE)]

\* x < y on doubles
FloatLess(x, y) ==
    IF x.neg # y.neg THEN x.neg
    ELSE IF x.neg THEN MagCmp(x.mag, y.mag) > 0
    ELSE MagCmp(x.mag, y.mag) < 0

\* Python's round(x, 1): the one-decimal number nearest to x (ties to
\* even), given in tenths; the double returned is the one nearest to it
PyRound1(x) ==
    LET t    == MagMulSmall(x.mag, 10)
        int  == t[4] * 16 + (t[3] \div Pow2(16))
        f3   == t[3] % Pow2(16)
        c    == IF f3 # Pow2(15) THEN (IF f3 < Pow2(15) THEN -1 ELSE 1)
                ELSE IF t[2] # 0 \/ t[1] # 0 THEN 1 ELSE 0
        n    == IF c > 0 \/ (c = 0 /\ int % 2 = 1) THEN int + 1 ELSE int
    IN  IF x.neg THEN -n ELSE n

(***************************************************************************)
(* Text: a str is a sequence of one-character strings.                     *)
(***************************************************************************)
Whitespace == {" ", "\t", "\n"}

Digits == {"0", "1", "2", "3", "4", "5", "6", "7", "8", "9"}

DigitVal(c) ==
    CASE c = "0" -> 0 [] c = "1" -> 1 [] c = "2" -> 2 [] c = "3" -> 3
      [] c = "4" -> 4 [] c = "5" -> 5 [] c = "6" -> 6 [] c = "7" -> 7
      [] c = "8" -> 8 [] c = "9" -> 9

RECURSIVE LStrip(_)
LStrip(s) ==
    IF s # <<>> /\ Head(s) \in Whitespace THEN LStrip(Tail(s)) ELSE s

RECURSIVE RStrip(_)
RStrip(s) ==
    IF s # <<>> /\ s[Len(s)] \in Whitespace
    THEN RStrip(SubSeq(s, 1, Len(s) - 1)) ELSE s

\* str.strip()
Strip(s) == RStrip(LStrip(s))

RECURSIVE DigitsVal(_, _)
DigitsVal(s, acc) ==
    IF s = <<>> THEN acc ELSE DigitsVal(Tail(s), acc * 10 + DigitVal(Head(s)))

\* int(s) for a str s: surrounding whitespace, an optional sign, decimal
\* digits; anything else raises ValueError (ok = FALSE)
IntOfStr(s) ==
    LET t    == Strip(s)
        sign == t # <<>> /\ Head(t) \in {"-", "+"}
        body == IF sign THEN Tail(t) ELSE t
    IN  IF body # <<>> /\ \A k \in 1..Len(body) : body[k] \in Digits
        THEN [ok |-> TRUE,
              val |-> IF sign /\ Head(t) = "-" THEN -DigitsVal(body, 0)
                                               ELSE DigitsVal(body, 0)]
        ELSE [ok |-> FALSE, val |-> 0]

(***************************************************************************)
(* JSON values of a request body.  A name field is a str, null, or absent; *)
(* a score field is an integer, a str, or absent.                          *)
(***************************************************************************)
JStr(s) == [kind |-> "str", str |-> s, int |-> 0]
JInt(n) == [kind |-> "int", str |-> <<>>, int |-> n]
JNull == [kind |-> "null", str |-> <<>>, int |-> 0]
JAbsent == [kind |-> "absent", str |-> <<>>, int |-> 0]

\* data.get(key, default)
DataGet(v, default) == IF v.kind = "absent" THEN default ELSE v

\* int(v): an int as it is, a str parsed (ValueError when it is no
\* number), None a TypeError
PyInt(v) ==
    CASE v.kind = "int" -> [ok |-> TRUE, val |-> v.int, exc |-> ""]
      [] v.kind = "str" ->
            LET r == IntOfStr(v.str)
            IN  [ok |-> r.ok, val |-> r.val,
                 exc |-> IF r.ok THEN "" ELSE "ValueError"]
      [] OTHER -> [ok |-> FALSE, val |-> 0, exc |-> "TypeError"]

(***************************************************************************)
(* calculate_points                                                        *)
(***************************************************************************)
rank_points == <<15, 5, -5, -15>>

\* (a variant: x goes in front of the entries of equal score, as a
\* descending sort that is not stable would place it)
RECURSIVE InsertDesc_Unstable(_, _)
InsertDesc_Unstable(s, x) ==
    IF s = <<>> THEN <<x>>
    ELSE IF Head(s).score > x.score
    THEN <<Head(s)>> \o InsertDesc_Unstable(Tail(s), x)
    ELSE <<x>> \o s

\* x inserted into the sequence s, sorted by score descending, behind every
\* entry whose score is not smaller: a stable descending sort
RECURSIVE InsertDesc(_, _)
InsertDesc(s, x) ==
    IF s = <<>> THEN <<x>>
    ELSE IF Head(s).score >= x.score THEN <<Head(s)>> \o InsertDesc(Tail(s), x)
    ELSE <<x>> \o s

RECURSIVE SortedFrom(_, _)
SortedFrom(rest, acc) ==
    IF rest = <<>> THEN acc ELSE SortedFrom(Tail(rest), InsertDesc(acc, Head(rest)))

\* sorted(scores, key=lambda x: x[1], reverse=True)
SortByScoreDesc(s) == SortedFrom(s, <<>>)

\* (a variant: the adjustment taken from 30000 instead of 25000)
PointsOf_WrongBase(i, score) ==
    FloatAdd(FloatOfInt(rank_points[i]), FloatDiv1000(score - 30000))

\* rank_points[i] + (score - 25000) / 1000
PointsOf(i, score) == FloatAdd(FloatOfInt(rank_points[i]), FloatDiv1000(score - 25000))

calculate_points(s) ==
    LET sorted_players == SortByScoreDesc(s)
    IN  [i \in 1..Len(sorted_players) |->
            [name   |-> sorted_players[i].name,
             score  |-> sorted_players[i].score,
             points |-> PointsOf(i, sorted_players[i].score)]]

(***************************************************************************)
(* Responses.  error is the message (with {i} for the slot number the      *)
(* message is formatted with, given in slot); points and totals of a       *)
(* response are the round(x, 1) values, in tenths.                         *)
(***************************************************************************)
NoResponse ==
    [status |-> 0, error |-> "", slot |-> 0, success |-> FALSE, game_id |-> 0,
     results |-> <<>>, totals |-> <<>>, deleted_count |-> 0, id |-> 0,
     name |-> <<>>]

ErrorResponse(status, message, slot) ==
    [NoResponse EXCEPT !.status = status, !.error = message, !.slot = slot]

EmptyTable == [i \in {} |-> <<>>]

(***************************************************************************)
(* POST /calculate                                                         *)
(***************************************************************************)
\* The validation loop of calculate from slot i on, players holding the
\* pairs appended so far: how it ends, at which slot, and the pairs
RECURSIVE ValidateFrom(_, _, _)
ValidateFrom(data, i, acc) ==
    IF i > 4 THEN [kind |-> "ok", slot |-> 0, players |-> acc]
    ELSE
      LET nv == DataGet(data[i].name, JStr(<<>>))
          sv == DataGet(data[i].score, JInt(0))
      IN  IF nv.kind # "str"
          THEN [kind |-> "AttributeError", slot |-> i, players |-> acc]
          ELSE
            LET name  == Strip(nv.str)
                score == PyInt(sv)
            IN  IF ~score.ok
                THEN [kind |-> score.exc, slot |-> i, players |-> acc]
                ELSE IF name = <<>>
                THEN [kind |-> "name_required", slot |-> i, players |-> acc]
                ELSE IF score.val % 100 # 0
                THEN [kind |-> "not_multiple", slot |-> i, players |-> acc]
                ELSE ValidateFrom(data, i + 1,
                                  Append(acc, [name |-> name, score |-> score.val]))

Validate(data) == ValidateFrom(data, 1, <<>>)

\* (a variant: the player2_score column bound to results[0][1])
GameRow_ColumnSlip(res) ==
    [i \in 1..4 |-> [name |-> res[i].name,
                     score |-> IF i = 2 THEN res[1].score ELSE res[i].score,
                     points |-> res[i].points]]

\* the row INSERT INTO games stores: results[0..3] in the columns
\* player1..player4, the points as computed (REAL keeps the double)
GameRow(res) ==
    [i \in 1..4 |-> [name |-> res[i].name, score |-> res[i].score,
                     points |-> res[i].points]]

\* (a variant: the INSERT executed twice)
InsertGame_Twice(tbl, id, row) == tbl @@ (id :> row) @@ ((id + 1) :> row)

\* INSERT INTO games ... ; the row gets the id after the largest ever used
\* (AUTOINCREMENT)
InsertGame(tbl, id, row) == tbl @@ (id :> row)

\* the 'results' list of the success response
ResultsJson(res) ==
    [i \in 1..Len(res) |->
        [name |-> res[i].name, score |-> res[i].score,
         points |-> PyRound1(res[i].points)]]

calculate(data, db_ok) ==
    LET v == Validate(data)
    IN  /\ request' = [route |-> "calculate", data |-> data]
        /\ UNCHANGED <<players, players_seq, scores, results>>
        /\ IF v.kind = "name_required"
           THEN /\ response' = ErrorResponse(400, "Player {i} name is required", v.slot)
                /\ UNCHANGED <<games, games_seq>>
           ELSE IF v.kind = "not_multiple"
           THEN /\ response' = ErrorResponse(400,
                                   "Player {i} score must be a multiple of 100", v.slot)
                /\ UNCHANGED <<games, games_seq>>
           ELSE IF v.kind = "ValueError"
           THEN /\ response' = ErrorResponse(400,
                                   "Invalid input. Please check all fields.", 0)
                /\ UNCHANGED <<games, games_seq>>
           ELSE IF v.kind # "ok"
           THEN /\ response' = ErrorResponse(500, v.kind, 0)
                /\ UNCHANGED <<games, games_seq>>
           ELSE IF ~db_ok
           THEN /\ response' = ErrorResponse(500, "sqlite3.Error", 0)
                /\ UNCHANGED <<games, games_seq>>
           ELSE LET res     == calculate_points(v.players)
                    game_id == games_seq + 1
                IN  /\ games' = InsertGame(games, game_id, GameRow(res))
                    /\ games_seq' = game_id
                    /\ response' = [NoResponse EXCEPT !.status = 200,
                                                      !.success = TRUE,
                                                      !.game_id = game_id,
                                                      !.results = ResultsJson(res)]

(***************************************************************************)
(* POST /calculate_totals                                                  *)
(***************************************************************************)
\* (a variant: only an absent key is refused, an empty list is computed)
NoGamesSelected_OnlyMissing(body) == ~body.present

\* 'if not game_ids' for data.get('game_ids', []): an absent key and an
\* empty list are both falsy
NoGamesSelected(body) == ~body.present \/ body.game_ids = <<>>

IdsOf(body) == {body.game_ids[k] : k \in 1..Len(body.game_ids)}

\* the ids of the stored games WHERE id IN (game_ids)
Selected(tbl, ids) == DOMAIN tbl \cap ids

\* the ids of S in ascending order: SQLite answers WHERE id IN (...) on the
\* INTEGER PRIMARY KEY by rowid lookups in ascending key order
RECURSIVE Ascending(_)
Ascending(S) ==
    IF S = {} THEN <<>>
    ELSE LET m == CHOOSE x \in S : \A y \in S : x <= y
         IN  <<m>> \o Ascending(S \ {m})

\* cursor.fetchall()
FetchAll(tbl, ids) ==
    LET order == Ascending(Selected(tbl, ids))
    IN  [k \in 1..Len(order) |-> tbl[order[k]]]

IndexOfName(totals, name) ==
    IF \E k \in 1..Len(totals) : totals[k].name = name
    THEN CHOOSE k \in 1..Len(totals) : totals[k].name = name
    ELSE 0

\* if name not in player_totals: player_totals[name] = 0
\* player_totals[name] += points
AddPoints(totals, name, points) ==
    LET k == IndexOfName(totals, name)
    IN  IF k = 0
        THEN Append(totals, [name |-> name, total |-> FloatAdd(FloatOfInt(0), points)])
        ELSE [totals EXCEPT ![k].total = FloatAdd(totals[k].total, points)]

\* the loops over the fetched games and their slots 1..4, from slot i of
\* game g on; the dict keeps its keys in insertion order
RECURSIVE Accumulate(_, _, _, _)
Accumulate(fetched, g, i, totals) ==
    IF g > Len(fetched) THEN totals
    ELSE IF i > 4 THEN Accumulate(fetched, g + 1, 1, totals)
    ELSE Accumulate(fetched, g, i + 1,
                    AddPoints(totals, fetched[g][i].name, fetched[g][i].points))

player_totals(fetched) == Accumulate(fetched, 1, 1, <<>>)

RECURSIVE InsertTotalDesc(_, _)
InsertTotalDesc(s, x) ==
    IF s = <<>> THEN <<x>>
    ELSE IF ~FloatLess(Head(s).total, x.total)
    THEN <<Head(s)>> \o InsertTotalDesc(Tail(s), x)
    ELSE <<x>> \o s

RECURSIVE SortedTotalsFrom(_, _)
SortedTotalsFrom(rest, acc) ==
    IF rest = <<>> THEN acc
    ELSE SortedTotalsFrom(Tail(rest), InsertTotalDesc(acc, Head(rest)))

\* sorted(player_totals.items(), key=lambda x: x[1], reverse=True)
sorted_totals(fetched) == SortedTotalsFrom(player_totals(fetched), <<>>)

TotalsJson(st) ==
    [k \in 1..Len(st) |->
        [name |-> st[k].name, total_points |-> PyRound1(st[k].total)]]

calculate_totals(body, db_ok) ==
    /\ request' = [route |-> "calculate_totals", body |-> body]
    /\ UNCHANGED <<games, games_seq, players, players_seq, scores, results>>
    /\ IF NoGamesSelected(body)
       THEN response' = ErrorResponse(400, "No games selected", 0)
       ELSE IF ~db_ok
       THEN response' = ErrorResponse(500, "Internal Server Error", 0)
       ELSE response' =
              [NoResponse EXCEPT
                 !.status = 200,
                 !.totals = TotalsJson(sorted_totals(FetchAll(games, IdsOf(body))))]

(***************************************************************************)
(* POST /remove_games                                                      *)
(***************************************************************************)
\* (a variant: DELETE FROM games with no WHERE clause)
DeleteGames_All(tbl, ids) == EmptyTable

\* DELETE FROM games WHERE id IN (game_ids)
DeleteGames(tbl, ids) == [g \in DOMAIN tbl \ ids |-> tbl[g]]

remove_games(body, db_ok) ==
    /\ request' = [route |-> "remove_games", body |-> body]
    /\ UNCHANGED <<games_seq, players, players_seq, scores, results>>
    /\ IF NoGamesSelected(body)
       THEN /\ response' = ErrorResponse(400, "No games selected", 0)
            /\ UNCHANGED games
       ELSE IF ~db_ok
       THEN /\ response' = ErrorResponse(500, "sqlite3.Error", 0)
            /\ UNCHANGED games
       ELSE /\ games' = DeleteGames(games, IdsOf(body))
            /\ response' =
                 [NoResponse EXCEPT
                    !.status = 200,
                    !.success = TRUE,
                    !.deleted_count = Cardinality(Selected(games, IdsOf(body)))]

(***************************************************************************)
(* POST /api/players, DELETE /api/players/<id>                             *)
(***************************************************************************)
\* (a variant: players.name declared without UNIQUE)
NameTaken_NoConstraint(tbl, name) == FALSE

\* the UNIQUE constraint on players.name (BINARY collation)
NameTaken(tbl, name) == \E p \in DOMAIN tbl : tbl[p] = name

add_player(raw, db_ok) ==
    LET name == Strip(DataGet(raw, JStr(<<>>)).str)
    IN  /\ request' = [route |-> "add_player", name |-> raw]
        /\ UNCHANGED <<games, games_seq, scores, results>>
        /\ IF name = <<>>
           THEN /\ response' = ErrorResponse(400, "Player name is required", 0)
                /\ UNCHANGED <<players, players_seq>>
           ELSE IF ~db_ok
           THEN /\ response' = ErrorResponse(500, "sqlite3.Error", 0)
                /\ UNCHANGED <<players, players_seq>>
           ELSE IF NameTaken(players, name)
           THEN /\ response' = ErrorResponse(400, "Player name already exists", 0)
                /\ UNCHANGED <<players, players_seq>>
           ELSE /\ players' = players @@ ((players_seq + 1) :> name)
                /\ players_seq' = players_seq + 1
                /\ response' = [NoResponse EXCEPT !.status = 200,
                                                  !.success = TRUE,
                                                  !.id = players_seq + 1,
                                                  !.name = name]

\* (a variant: deleting a player also deletes the games the player is in)
delete_player_cascade(player_id, db_ok) ==
    /\ request' = [route |-> "delete_player", player_id |-> player_id]
    /\ UNCHANGED <<games_seq, players_seq, scores, results>>
    /\ IF ~db_ok
       THEN /\ response' = ErrorResponse(500, "sqlite3.Error", 0)
            /\ UNCHANGED <<players, games>>
       ELSE /\ players' = [p \in DOMAIN players \ {player_id} |-> players[p]]
            /\ games' = [g \in {h \in DOMAIN games :
                                  \A i \in 1..4 :
                                     player_id \notin DOMAIN players
                                        \/ games[h][i].name # players[player_id]}
                           |-> games[g]]
            /\ response' = [NoResponse EXCEPT !.status = 200, !.success = TRUE]

delete_player(player_id, db_ok) ==
    /\ request' = [route |-> "delete_player", player_id |-> player_id]
    /\ UNCHANGED <<games, games_seq, players_seq, scores, results>>
    /\ IF ~db_ok
       THEN /\ response' = ErrorResponse(500, "sqlite3.Error", 0)
            /\ UNCHANGED players
       ELSE /\ players' = [p \in DOMAIN players \ {player_id} |-> players[p]]
            /\ response' = [NoResponse EXCEPT !.status = 200, !.success = TRUE]

(***************************************************************************)
(* The database after init_db() on a new file: no games, the four default  *)
(* players with ids 1..4.  (The first default name is two CJK characters,  *)
(* written here by their transliteration.)                                 *)
(***************************************************************************)
default_players ==
    <<  <<"Qun", "Zhu">>, <<"H", "a", "n">>, <<"H", "e", "n", "r", "y">>,
        <<"Y", "H", "W">>  >>

(***************************************************************************)
(* Bounds and the request bodies tried                                     *)
(***************************************************************************)
\* games ever inserted (the AUTOINCREMENT counter of games)
MaxGames == 2

\* players ever added beyond the default ones
MaxNewPlayers == 1

Name(c) == <<c>>

Slot(name, score) == [name |-> name, score |-> score]

\* two games of four players whose scores sum to 100000 each
Game1Data ==
    <<Slot(JStr(Name("A")), JInt(34600)), Slot(JStr(Name("B")), JInt(18600)),
      Slot(JStr(Name("C")), JInt(27000)), Slot(JStr(Name("D")), JInt(19800))>>

Game2Data ==
    <<Slot(JStr(Name("A")), JInt(9100)), Slot(JStr(Name("B")), JInt(28400)),
      Slot(JStr(Name("C")), JInt(10000)), Slot(JStr(Name("D")), JInt(52500))>>

\* padded names, a score given as a string, an absent score, a negative
\* score, two equal scores; the scores do not sum to 100000
Game3Data ==
    <<Slot(JStr(<<" ", "A">>), JInt(30000)),
      Slot(JStr(<<"B", " ">>), JStr(<<"3", "0", "0", "0", "0">>)),
      Slot(JStr(Name("A")), JAbsent),
      Slot(JStr(Name("b")), JInt(-100))>>

BadNameData == [Game1Data EXCEPT ![3].name = JAbsent]

BadMultipleData == [Game1Data EXCEPT ![2].score = JInt(25050)]

BadNumberData ==
    [Game1Data EXCEPT ![4] = Slot(JStr(Name(" ")), JStr(<<"a", "b", "c">>))]

NullNameData == [Game1Data EXCEPT ![1].name = JNull]

CalcData ==
    {Game1Data, Game2Data, Game3Data, BadNameData, BadMultipleData,
     BadNumberData, NullNameData}

\* the bodies of one slot: valid; a blank name; a score that is no multiple
\* of 100; a score that is no number; a blank name with such a score
SlotData ==
    {Slot(JStr(Name("A")), JInt(25000)),
     Slot(JStr(Name(" ")), JInt(25000)),
     Slot(JStr(Name("A")), JInt(25050)),
     Slot(JStr(Name("A")), JStr(<<"a", "b", "c">>)),
     Slot(JStr(Name(" ")), JStr(<<"a", "b", "c">>))}

AllSlotData == [1..4 -> SlotData]

GameIds == 1..(MaxGames + 1)

\* the lists of at most two ids, an id twice and ids out of order included
IdLists == {<<>>} \cup {<<a>> : a \in GameIds}
                  \cup UNION {{<<a, b>> : b \in 1..a} : a \in GameIds}

IdBodies ==
    {[present |-> TRUE, game_ids |-> l] : l \in IdLists}
        \cup {[present |-> FALSE, game_ids |-> <<>>]}

PlayerNameInputs ==
    {JStr(<<" ", "H", "a", "n", " ">>), JStr(Name("A")), JStr(<<" ">>), JAbsent}

PlayerIdInputs == {0, 2, Len(default_players) + 1}

PointNames == {<<Name("A"), Name("B"), Name("C"), Name("D")>>}
                  \cup [1..4 -> {Name("A"), Name("B")}]

PointScores == {40000, 30000, 20000, 10000, 25100}

PointInputs ==
    {[i \in 1..4 |-> [name |-> ns[i], score |-> ss[i]]] :
        ns \in PointNames, ss \in [1..4 -> PointScores]}

(***************************************************************************)
(* The application: every route, a few request bodies                      *)
(***************************************************************************)
Init ==
    /\ games = EmptyTable
    /\ games_seq = 0
    /\ players = [p \in 1..Len(default_players) |-> default_players[p]]
    /\ players_seq = Len(default_players)
    /\ request = [route |-> "none"]
    /\ response = NoResponse
    /\ scores = <<>>
    /\ results = <<>>

Calculate == \E d \in CalcData, ok \in BOOLEAN :
                 games_seq < MaxGames /\ calculate(d, ok)

CalculateTotals == \E b \in IdBodies, ok \in BOOLEAN : calculate_totals(b, ok)

RemoveGames == \E b \in IdBodies, ok \in BOOLEAN : remove_games(b, ok)

AddPlayer == \E raw \in PlayerNameInputs, ok \in BOOLEAN :
                 /\ players_seq < Len(default_players) + MaxNewPlayers
                 /\ add_player(raw, ok)

DeletePlayer == \E id \in PlayerIdInputs, ok \in BOOLEAN : delete_player(id, ok)

Next == Calculate \/ CalculateTotals \/ RemoveGames \/ AddPlayer \/ DeletePlayer

Spec == Init /\ [][Next]_vars

(***************************************************************************)
(* /calculate alone, every combination of slot bodies                      *)
(***************************************************************************)
CalculateAny == \E d \in AllSlotData, ok \in BOOLEAN :
                    games_seq < MaxGames /\ calculate(d, ok)

SpecCalc == Init /\ [][CalculateAny]_vars

(***************************************************************************)
(* calculate_points alone, as a function of its argument                   *)
(***************************************************************************)
InitPoints ==
    /\ games = EmptyTable
    /\ games_seq = 0
    /\ players = [p \in 1..Len(default_players) |-> default_players[p]]
    /\ players_seq = Len(default_players)
    /\ request = [route |-> "none"]
    /\ response = NoResponse
    /\ scores \in PointInputs
    /\ results = <<>>

CallCalculatePoints ==
    /\ results = <<>>
    /\ results' = calculate_points(scores)
    /\ UNCHANGED <<games, games_seq, players, players_seq, request, response, scores>>

SpecPoints == InitPoints /\ [][CallCalculatePoints]_vars
(***************************************************************************)
(* Properties                                                              *)
(***************************************************************************)
\* the points of an entry as every response reports them: round(points, 1),
\* in tenths
Tenths(e) == PyRound1(e.points)

RECURSIVE SumTenthsFrom(_, _)
SumTenthsFrom(s, k) ==
    IF k > Len(s) THEN 0 ELSE Tenths(s[k]) + SumTenthsFrom(s, k + 1)

SumTenths(s) == SumTenthsFrom(s, 1)

RECURSIVE SumScoresFrom(_, _)
SumScoresFrom(s, k) ==
    IF k > Len(s) THEN 0 ELSE s[k].score + SumScoresFrom(s, k + 1)

SumScores(s) == SumScoresFrom(s, 1)

\* rank weight plus (score - 25000) / 1000, in tenths, for a score that is
\* a multiple of 100
RuleTenths(i, score) == rank_points[i] * 10 + (score - 25000) \div 100

\* C1 as claimed: the four points of every result of calculate_points,
\* taken in tenths, sum to 0.
C1_PointsSumToZero == results # <<>> => SumTenths(results) = 0

\* C1 as amended: the four points of every result of calculate_points,
\* taken in tenths, sum to (sum of the four scores - 100000) / 100, which is
\* 0 exactly when the scores sum to 100000.
C1_PointsSumFollowsScores ==
    results # <<>> =>
        /\ SumTenths(results) = (SumScores(scores) - 100000) \div 100
        /\ SumTenths(results) = 0 <=> SumScores(scores) = 100000

\* C1 as amended, for the stored rows (checked under Spec): the points of a
\* games row, in tenths, sum to (sum of its scores - 100000) / 100.
C1_RowsSumFollowScores ==
    \A g \in DOMAIN games :
        SumTenths(games[g]) = (SumScores(games[g]) - 100000) \div 100

C1_Witness ==
    /\ results # <<>>
    /\ SumScores(scores) = 100000
    /\ SumTenths(results) = 0
    /\ \E i, j \in 1..4 : scores[i].score # scores[j].score

\* res is sc sorted by score descending, equal scores in their input order
IsStableDescendingSort(sc, res) ==
    /\ Len(res) = Len(sc)
    /\ \E pi \in Permutations(1..Len(sc)) :
          /\ \A i \in 1..Len(sc) :
                /\ res[i].name = sc[pi[i]].name
                /\ res[i].score = sc[pi[i]].score
          /\ \A i, j \in 1..Len(sc) :
                i < j => \/ res[i].score > res[j].score
                         \/ res[i].score = res[j].score /\ pi[i] < pi[j]

ExampleScores ==
    <<[name |-> Name("A"), score |-> 40000], [name |-> Name("B"), score |-> 30000],
      [name |-> Name("C"), score |-> 20000], [name |-> Name("D"), score |-> 10000]>>

ExampleResults ==
    <<[name |-> Name("A"), score |-> 40000, points |-> FloatOfInt(30)],
      [name |-> Name("B"), score |-> 30000, points |-> FloatOfInt(10)],
      [name |-> Name("C"), score |-> 20000, points |-> FloatOfInt(-10)],
      [name |-> Name("D"), score |-> 10000, points |-> FloatOfInt(-30)]>>

\* C2: calculate_points returns its four pairs sorted by score descending,
\* equal scores in input order; the entry at rank i carries, to the one
\* decimal reported, rank_points[i] + (score - 25000) / 1000; the scores
\* (40000, 30000, 20000, 10000) of A, B, C, D give exactly 30, 10, -10, -30.
C2_RankOrderAndPoints ==
    results # <<>> =>
        /\ IsStableDescendingSort(scores, results)
        /\ \A i \in 1..4 : Tenths(results[i]) = RuleTenths(i, results[i].score)
        /\ scores = ExampleScores => results = ExampleResults

\* two players with equal scores behind a player with a smaller one: the
\* sort moves them and keeps their order
C2_Witness ==
    /\ results # <<>>
    /\ scores[1].score < scores[2].score
    /\ scores[2].score = scores[3].score
    /\ scores[2].name # scores[3].name
    /\ results[1].name = scores[2].name
    /\ results[2].name = scores[3].name

\* a slot fails validation: its name is empty after trimming, or its score
\* is not an integer multiple of 100
SlotFails(sl) ==
    \/ Strip(DataGet(sl.name, JStr(<<>>)).str) = <<>>
    \/ LET n == PyInt(DataGet(sl.score, JInt(0)))
       IN  ~n.ok \/ n.val % 100 # 0

\* C3 as claimed: a /calculate request with a failing slot is answered 400
\* with a message that names the position of a slot that failed.
C3_ValidationErrorNamesSlot ==
    (request.route = "calculate" /\ \E i \in 1..4 : SlotFails(request.data[i]))
        => /\ response.status = 400
           /\ response.slot \in 1..4
           /\ SlotFails(request.data[response.slot])

\* the body of a /calculate_totals or /remove_games request selects no id
NoIds(body) == ~body.present \/ Len(body.game_ids) = 0

\* what one /calculate step does
C4_Step ==
    /\ players' = players
    /\ players_seq' = players_seq
    /\ \/ /\ response'.status = 200
          /\ response'.success
          /\ response'.game_id \notin DOMAIN games
          /\ DOMAIN games' = DOMAIN games \cup {response'.game_id}
          /\ \A g \in DOMAIN games : games'[g] = games[g]
          /\ Len(response'.results) = 4
          /\ \A i \in 1..4 :
                LET stored == games'[response'.game_id][i]
                    shown  == response'.results[i]
                IN  /\ shown.name = stored.name
                    /\ shown.score = stored.score
                    /\ shown.points = Tenths(stored)
       \/ /\ response'.status \in {400, 500}
          /\ ~response'.success
          /\ response'.error # ""
          /\ games' = games

\* C4: a /calculate call either inserts exactly one new games row and
\* answers success with that row's id and its four results, or answers an
\* error (400 or 500) and leaves the games table as it was; it never changes
\* the players table.
C4_NoPartialSuccess == [][request'.route = "calculate" => C4_Step]_vars

\* a second game inserted beside a stored one
C4_Witness ==
    /\ request.route = "calculate"
    /\ response.success
    /\ response.game_id = 2
    /\ DOMAIN games = {1, 2}

\* the entries of the fetched games in the order the handler scans them
EntryAt(fetched, k) == fetched[((k - 1) \div 4) + 1][((k - 1) % 4) + 1]

NamesIn(fetched) == {EntryAt(fetched, k).name : k \in 1..(4 * Len(fetched))}

FirstSeen(fetched, name) ==
    CHOOSE k \in 1..(4 * Len(fetched)) :
        /\ EntryAt(fetched, k).name = name
        /\ \A m \in 1..(k - 1) : EntryAt(fetched, m).name # name

RECURSIVE SumFor(_, _, _)
SumFor(fetched, name, k) ==
    IF k > 4 * Len(fetched) THEN 0
    ELSE (IF EntryAt(fetched, k).name = name THEN Tenths(EntryAt(fetched, k)) ELSE 0)
            + SumFor(fetched, name, k + 1)

\* one entry per distinct name of the selected games, its total the sum of
\* that name's stored points (in tenths)
TotalsPerName(fetched, t) ==
    /\ {t[k].name : k \in 1..Len(t)} = NamesIn(fetched)
    /\ Len(t) = Cardinality(NamesIn(fetched))
    /\ \A k \in 1..Len(t) : t[k].total_points = SumFor(fetched, t[k].name, 1)

\* C5 as claimed: /calculate_totals with a non-empty id list returns one
\* entry per distinct name of the selected stored games with the sum of
\* that name's stored points, ordered by total descending, entries with
\* equal totals in the order their names were first met.
C5_TotalsOrderedTiesByFirstSeen ==
    (request.route = "calculate_totals" /\ response.status = 200) =>
        LET fetched == FetchAll(games, IdsOf(request.body))
            t       == response.totals
        IN  /\ TotalsPerName(fetched, t)
            /\ \A i, j \in 1..Len(t) :
                  i < j =>
                    \/ t[i].total_points > t[j].total_points
                    \/ /\ t[i].total_points = t[j].total_points
                       /\ FirstSeen(fetched, t[i].name) < FirstSeen(fetched, t[j].name)

\* The rest of C5 (not the order among equal totals), which holds: the
\* entries, their totals, and a descending order of the reported totals.
C5_TotalsPerNameDescending ==
    (request.route = "calculate_totals" /\ response.status = 200) =>
        LET fetched == FetchAll(games, IdsOf(request.body))
            t       == response.totals
        IN  /\ TotalsPerName(fetched, t)
            /\ \A i, j \in 1..Len(t) :
                  i < j => t[i].total_points >= t[j].total_points

\* C6: /calculate_totals with an empty or missing game_ids list is answered
\* 400 'No games selected' and with no totals list; with a non-empty list it
\* is never answered with that error; neither changes a table.
C6_EmptySelectionRejected ==
    [][request'.route = "calculate_totals" =>
          /\ games' = games /\ games_seq' = games_seq
          /\ players' = players /\ players_seq' = players_seq
          /\ NoIds(request'.body) =>
                /\ response'.status = 400
                /\ response'.error = "No games selected"
                /\ response'.totals = <<>>
          /\ ~NoIds(request'.body) =>
                /\ response'.status # 400
                /\ response'.error # "No games selected"]_vars

\* an empty list sent while a game is stored
C6_Witness ==
    /\ request.route = "calculate_totals"
    /\ request.body.present
    /\ request.body.game_ids = <<>>
    /\ response.status = 400
    /\ games # EmptyTable

\* C7: /remove_games with a non-empty id list leaves the players table and
\* every games row whose id is not in the list unchanged and adds no row;
\* unless the storage engine raises (500, nothing removed) it removes
\* exactly the stored rows whose id is in the list and answers success with
\* deleted_count the number of rows removed, 0 when no id is stored.
C7_RemovesExactlySelected ==
    [][(request'.route = "remove_games" /\ ~NoIds(request'.body)) =>
          LET ids == IdsOf(request'.body)
          IN  /\ players' = players /\ players_seq' = players_seq
              /\ DOMAIN games' \subseteq DOMAIN games
              /\ \A g \in DOMAIN games \ ids :
                    g \in DOMAIN games' /\ games'[g] = games[g]
              /\ response'.status \in {200, 500}
              /\ response'.status = 500 => games' = games /\ ~response'.success
              /\ response'.status = 200 =>
                    /\ response'.success
                    /\ DOMAIN games' = DOMAIN games \ ids
                    /\ response'.deleted_count =
                          Cardinality(DOMAIN games) - Cardinality(DOMAIN games')
                    /\ (ids \cap DOMAIN games = {}) => response'.deleted_count = 0]_vars

\* a list of a stored and an unknown id: one row removed, another one kept
C7_Witness ==
    /\ request.route = "remove_games"
    /\ Len(request.body.game_ids) = 2
    /\ response.success
    /\ response.deleted_count = 1
    /\ games # EmptyTable

PlayersUnique ==
    \A p, q \in DOMAIN players : p # q => players[p] # players[q]

C8_Step ==
    LET name == Strip(DataGet(request'.name, JStr(<<>>)).str)
    IN  /\ response'.status = 500 => players' = players
        /\ (name # <<>> /\ response'.status # 500) =>
              IF \E p \in DOMAIN players : players[p] = name
              THEN /\ response'.status = 400
                   /\ response'.error = "Player name already exists"
                   /\ players' = players
              ELSE /\ response'.success
                   /\ response'.id \notin DOMAIN players
                   /\ DOMAIN players' = DOMAIN players \cup {response'.id}
                   /\ players'[response'.id] = name
                   /\ \A p \in DOMAIN players : players'[p] = players[p]

\* C8: no two rows of the players table ever have the same name; POST
\* /api/players with a name that (trimmed) is already present is answered
\* 400 'Player name already exists' and changes nothing, and a name not
\* present is inserted exactly once (unless the storage engine raises: 500,
\* nothing inserted).
C8_PlayerNamesUnique == []PlayersUnique /\ [][request'.route = "add_player" => C8_Step]_vars

\* a padded copy of a default name is refused
C8_Witness ==
    /\ request.route = "add_player"
    /\ request.name.str # Strip(request.name.str)
    /\ response.status = 400
    /\ response.error = "Player name already exists"

\* C9: a stored game keeps its names, scores and points in every step; it
\* leaves the table only in a /remove_games step that names its id, and a
\* new row never takes an id used before; adding or deleting a player
\* leaves the games table unchanged (and /calculate_totals reads nothing
\* but the games table, so its answers are unchanged too).
C9_StoredGamesImmutable ==
    [][/\ \A g \in DOMAIN games \cap DOMAIN games' : games'[g] = games[g]
       /\ \A g \in DOMAIN games \ DOMAIN games' :
             request'.route = "remove_games" /\ g \in IdsOf(request'.body)
       /\ \A g \in DOMAIN games' \ DOMAIN games : g > games_seq
       /\ request'.route \in {"add_player", "delete_player"} =>
             games' = games /\ games_seq' = games_seq]_vars

\* the player with id 5, named as a player of a stored game, was added and
\* deleted
C9_Witness ==
    /\ request.route = "delete_player"
    /\ response.success
    /\ request.player_id = 5
    /\ players_seq >= 5
    /\ 5 \notin DOMAIN players
    /\ 2 \in DOMAIN players
    /\ \E g \in DOMAIN games : \E i \in 1..4 : games[g][i].name = Name("A")

\* C10: every games row is in rank order (scores descending), every stored
\* score a multiple of 100, every stored name non-empty, and the points of
\* slot i are rank_points[i] + (score_i - 25000) / 1000 (to one decimal).
C10_RowsRankedAndScored ==
    \A g \in DOMAIN games :
        /\ Len(games[g]) = 4
        /\ \A i \in 1..4 :
              /\ games[g][i].name # <<>>
              /\ games[g][i].score % 100 = 0
              /\ Tenths(games[g][i]) = RuleTenths(i, games[g][i].score)
              /\ i < 4 => games[g][i].score >= games[g][i + 1].score

\* two rows stored, one of them with two equal scores and a negative one
C10_Witness ==
    /\ Cardinality(DOMAIN games) = 2
    /\ \E g \in DOMAIN games :
          /\ games[g][1].score = games[g][2].score
          /\ games[g][4].score < 0
====
